---- MODULE Spec2Model ----
(***************************************************************************)
(* Model of iam_auto_assume.py: auto_assume(role_name) resolves the        *)
(* caller's ARN, grants it sts:AssumeRole in the trust policy of the       *)
(* target role (read-modify-write on the remote IAM service), waits for    *)
(* propagation and assumes the role.                                       *)
(*                                                                         *)
(* One target role is modelled; `policy` is its trust policy document as   *)
(* the IAM service stores it.  Every remote call is one step of a caller   *)
(* and its outcome (success or one of the botocore exception classes) is   *)
(* chosen by the environment.                                              *)
(***************************************************************************)
EXTENDS Naturals, Sequences, FiniteSets

\* ------------------------------------------------------------------ bounds
\* Longest Statement list the role's trust policy holds before the first call.
MaxStmts == 1

\* ------------------------------------------------------------------ data
Procs == {1, 2}

\* ARNs are strings, modelled as sequences of characters so that Python's
\* substring test on str can be computed.  "D" is a proper substring of "DO"
\* (think role/Dev and role/DevOps), and "DO" is no substring of "D".
Arns == { <<"D">>, <<"D", "O">> }

Accounts == {"123456789012"}

RoleName == "TestRole"

\* A Python value that can sit in Principal.AWS or be passed as
\* current_role_arn: a str, a list of str, None, or (for .get) a missing key.
PyNone == [form |-> "none", str |-> <<>>, list |-> <<>>]

PyAbsent == [form |-> "absent", str |-> <<>>, list |-> <<>>]

PyStr(a) == [form |-> "str", str |-> a, list |-> <<>>]

PyList(l) == [form |-> "list", str |-> <<>>, list |-> l]

\* Principal.AWS values of the statements a trust policy may hold at the start.
AwsLists == { <<>>, << <<"D">> >>, << <<"D", "O">> >>, << <<"D", "O">>, <<"D">> >> }

AwsValues == { PyStr(a) : a \in Arns } \cup { PyList(l) : l \in AwsLists } \cup { PyAbsent }

Statements == [Effect : {"Allow", "Deny"}, AWS : AwsValues, Action : {"sts:AssumeRole"}]

RECURSIVE SeqsUpTo(_, _)
SeqsUpTo(S, n) == IF n = 0 THEN { <<>> } ELSE LET shorter == SeqsUpTo(S, n - 1) IN shorter \cup { Append(s, x) : s \in { t \in shorter : Len(t) = n - 1 }, x \in S }

\* A document with a Statement list, or one without the key.
NoStatementDoc == [hasStatement |-> FALSE, Statement |-> <<>>]

Doc(stmts) == [hasStatement |-> TRUE, Statement |-> stmts]

InitialPolicies == { Doc(s) : s \in SeqsUpTo(Statements, MaxStmts) } \cup { NoStatementDoc }

\* botocore exception classes a remote call can raise.  Only ClientError is a
\* botocore.exceptions.ClientError; the other two derive from BotoCoreError.
Kinds == {"ClientError", "EndpointConnectionError", "NoCredentialsError"}

Outcomes == {"ok"} \cup Kinds

Identities == [Account : Accounts, Arn : Arns]

VARIABLES policy, pc, current_role_arn, fetched, trust_policy, utp, role_arn, credentials, exc, trace, prev

vars == <<policy, pc, current_role_arn, fetched, trust_policy, utp, role_arn, credentials, exc, trace, prev>>

\* ------------------------------------------------------------------ pure helpers
\* Python's `x in y` for str operands: substring containment.
IsSubstring(x, y) ==
    \E i \in 0..Len(y) : i + Len(x) <= Len(y) /\ SubSeq(y, i + 1, i + Len(x)) = x

\* Variant of PyIn: the test handles the str form only, a list never matches.
PyIn_strOnly(x, y) ==
    CASE y.form = "absent" -> "false"
      [] y.form = "list" -> "false"
      [] y.form = "str" -> IF x.form # "str" THEN "raise" ELSE IF IsSubstring(x.str, y.str) THEN "true" ELSE "false"
      [] OTHER -> "raise"

\* `current_role_arn in statement.get("Principal", {}).get("AWS", [])` (line 92):
\* "true", "false", or "raise" when Python raises TypeError (None in a str,
\* anything in None).
PyIn(x, y) ==
    CASE y.form = "absent" -> "false"
      [] y.form = "list" -> IF x.form = "str" /\ \E i \in 1..Len(y.list) : y.list[i] = x.str THEN "true" ELSE "false"
      [] y.form = "str" -> IF x.form # "str" THEN "raise" ELSE IF IsSubstring(x.str, y.str) THEN "true" ELSE "false"
      [] OTHER -> "raise"

\* The for loop of lines 91-94 over statements[i..]: "already" on the first
\* Allow statement containing the ARN, "raise" if the test raises before that,
\* "absent" when the loop ends without a match.  `and` short-circuits, so the
\* containment test is evaluated for Allow statements only.
RECURSIVE ScanFrom(_, _, _)
ScanFrom(statements, i, arn) ==
    IF i > Len(statements) THEN "absent"
    ELSE IF statements[i].Effect # "Allow" THEN ScanFrom(statements, i + 1, arn)
    ELSE LET r == PyIn(arn, statements[i].AWS)
         IN IF r = "raise" THEN "raise"
            ELSE IF r = "true" THEN "already"
            ELSE ScanFrom(statements, i + 1, arn)

\* trust_policy.get("Statement", []) at line 91: a missing key scans nothing.
Scan(doc, arn) == ScanFrom(doc.Statement, 1, arn)

\* Lines 97-101.
new_statement(arn) == [Effect |-> "Allow", AWS |-> arn, Action |-> "sts:AssumeRole"]

\* Variant of AppendRaises: the list is created when missing (setdefault).
AppendRaises_setdefault(doc) == FALSE

\* trust_policy["Statement"].append(new_statement) at line 102: KeyError when
\* the document has no Statement key.
AppendRaises(doc) == ~doc.hasStatement

AppendStatement(doc, stmt) == [doc EXCEPT !.Statement = Append(@, stmt)]

\* Variant of CaughtByException: the handlers catch ClientError only.
CaughtByException_clientOnly(kind) == kind = "ClientError"

\* The except clauses: update_trust_policy and the two identity helpers catch
\* Exception (lines 43, 70, 114); assume_role catches ClientError only (line 126).
LocalErrors == {"TypeError", "KeyError"}

CaughtByException(kind) == kind \in Kinds \cup LocalErrors

CaughtByClientError(kind) == kind = "ClientError"

\* f"arn:aws:iam::{account_id}:role/{role_name}" (line 57); a None account id
\* is formatted as the text "None".
NoneAccount == [isNone |-> TRUE, val |-> ""]

StrAccount(a) == [isNone |-> FALSE, val |-> a]

FormatAccount(account_id) == IF account_id.isNone THEN "None" ELSE account_id.val

construct_arn(account_id, role_name) == <<"arn:aws:iam::", FormatAccount(account_id), ":role/", role_name>>

\* The response of sts.assume_role for a request (lines 121-125); the request
\* parameters stand for the credentials issued for them.
NoneCredentials == [isNone |-> TRUE, RoleArn |-> <<>>, RoleSessionName |-> ""]

Credentials(arn) == [isNone |-> FALSE, RoleArn |-> arn, RoleSessionName |-> "TestRoleSession"]

\* IAM validates the document of update_assume_role_policy: a statement whose
\* principal is JSON null is rejected (MalformedPolicyDocument, a ClientError).
ServerAccepts(doc) == \A i \in 1..Len(doc.Statement) : doc.Statement[i].AWS.form # "none"

\* Variant of PolicyDocument: a patch, the new statement is added to whatever
\* the role holds at the time of the write.
PolicyDocument_patch(p) == AppendStatement(policy, new_statement(current_role_arn[p]))

\* Variant of PolicyDocument: only the new statement is sent.
PolicyDocument_onlyNew(p) == Doc(<<new_statement(current_role_arn[p])>>)

\* The PolicyDocument sent at lines 105-108: the whole local document.
PolicyDocument(p) == trust_policy[p]

Event(call, ok) == [call |-> call, ok |-> ok]

Terminal == {"idle", "done", "raised"}

Finished == {"done", "raised"}

HasEvent(tr, call, ok) == \E i \in 1..Len(tr) : tr[i] = Event(call, ok)

\* Number of Allow statements of a document that name the ARN: Principal.AWS
\* equal to it, or a list holding it.
Names(stmt, a) ==
    /\ stmt.Effect = "Allow"
    /\ \/ stmt.AWS = PyStr(a)
       \/ stmt.AWS.form = "list" /\ \E i \in 1..Len(stmt.AWS.list) : stmt.AWS.list[i] = a

Grants(doc, a) == Cardinality({ i \in 1..Len(doc.Statement) : Names(doc.Statement[i], a) })

\* What the previous call's update_trust_policy did, kept when the next call
\* starts: whether every remote call it made succeeded and, if so, the ARN it
\* granted and whether the document it fetched had a Statement list naming
\* that ARN in no Allow statement.
NoPrev == [ok |-> FALSE, arn |-> PyNone, fresh |-> FALSE]

UtpOk(tr) == HasEvent(tr, "get_role", TRUE) /\ ~HasEvent(tr, "update_assume_role_policy", FALSE)

Fresh(doc, arn) == doc.hasStatement /\ arn.form = "str" /\ Grants(doc, arn.str) = 0

PrevOf(q) ==
    IF UtpOk(trace[q])
    THEN [ok |-> TRUE, arn |-> current_role_arn[q], fresh |-> Fresh(fetched[q], current_role_arn[q])]
    ELSE NoPrev

\* ------------------------------------------------------------------ state
IdleFrame(v) == [p \in Procs |-> v]

Init ==
    /\ policy \in InitialPolicies
    /\ pc = IdleFrame("idle")
    /\ current_role_arn = IdleFrame(PyNone)
    /\ fetched = IdleFrame(NoStatementDoc)
    /\ trust_policy = IdleFrame(NoStatementDoc)
    /\ utp = IdleFrame("none")
    /\ role_arn = IdleFrame(<<>>)
    /\ credentials = IdleFrame(NoneCredentials)
    /\ exc = IdleFrame("none")
    /\ trace = IdleFrame(<<>>)
    /\ prev = NoPrev

\* ------------------------------------------------------------------ steps
\* auto_assume(role_name) called after every earlier call has returned (the
\* earlier call's frame is gone).  Its first step is get_current_role_arn
\* (lines 60-72), evaluated at line 132: the ARN of the caller's identity, or
\* None on any exception.
auto_assume(p) ==
    /\ \A q \in Procs : pc[q] \in Terminal
    /\ \E o \in Outcomes, id \in Identities :
        /\ current_role_arn' = [IdleFrame(PyNone) EXCEPT ![p] = IF o = "ok" THEN PyStr(id.Arn) ELSE PyNone]
        /\ trace' = [IdleFrame(<<>>) EXCEPT ![p] = <<Event("get_caller_identity", o = "ok")>>]
        /\ pc' = [IdleFrame("idle") EXCEPT ![p] = IF o = "ok" \/ CaughtByException(o) THEN "get_role" ELSE "raised"]
        /\ exc' = [IdleFrame("none") EXCEPT ![p] = IF o = "ok" \/ CaughtByException(o) THEN "none" ELSE o]
    /\ fetched' = IdleFrame(NoStatementDoc)
    /\ trust_policy' = IdleFrame(NoStatementDoc)
    /\ utp' = IdleFrame("none")
    /\ role_arn' = IdleFrame(<<>>)
    /\ credentials' = IdleFrame(NoneCredentials)
    /\ prev' = IF \E q \in Procs : pc[q] \in Finished
               THEN PrevOf(CHOOSE q \in Procs : pc[q] \in Finished)
               ELSE prev
    /\ UNCHANGED policy

\* update_trust_policy(target_role_name, current_role_arn) called directly by
\* a caller that has not called yet, while other callers may be in progress.
update_trust_policy(p) ==
    /\ pc[p] = "idle"
    /\ \E a \in Arns : current_role_arn' = [current_role_arn EXCEPT ![p] = PyStr(a)]
    /\ pc' = [pc EXCEPT ![p] = "get_role"]
    /\ UNCHANGED <<policy, fetched, trust_policy, utp, role_arn, credentials, exc, trace, prev>>

\* update_trust_policy up to its first return or its write (lines 85-102):
\* get_role, the scan, the append.  FetchError is "none" or the exception
\* raised on the way.
FetchError(o, doc, arn) ==
    IF o # "ok" THEN o
    ELSE IF Scan(doc, arn) = "raise" THEN "TypeError"
    ELSE IF Scan(doc, arn) = "absent" /\ AppendRaises(doc) THEN "KeyError"
    ELSE "none"

update_trust_policy_fetch(p) ==
    /\ pc[p] = "get_role"
    /\ \E o \in Outcomes :
        LET arn == current_role_arn[p]
            err == FetchError(o, policy, arn)
            already == err = "none" /\ Scan(policy, arn) = "already"
        IN /\ trace' = [trace EXCEPT ![p] = Append(@, Event("get_role", o = "ok"))]
           /\ fetched' = [fetched EXCEPT ![p] = IF o = "ok" THEN policy ELSE NoStatementDoc]
           /\ trust_policy' = [trust_policy EXCEPT ![p] =
                 IF o # "ok" THEN NoStatementDoc
                 ELSE IF err = "none" /\ ~already THEN AppendStatement(policy, new_statement(arn))
                 ELSE policy]
           /\ utp' = [utp EXCEPT ![p] = IF already THEN "already" ELSE IF err # "none" THEN "error" ELSE "none"]
           /\ pc' = [pc EXCEPT ![p] =
                 IF already THEN "utp_returned"
                 ELSE IF err = "none" THEN "write"
                 ELSE IF CaughtByException(err) THEN "utp_returned"
                 ELSE "raised"]
           /\ exc' = [exc EXCEPT ![p] = IF err # "none" /\ ~CaughtByException(err) THEN err ELSE "none"]
    /\ UNCHANGED <<policy, current_role_arn, role_arn, credentials, prev>>

\* Variant of AfterWrite: no propagation wait after a successful write.
AfterWrite_noSleep(res) ==
    IF res = "ok" THEN "utp_returned"
    ELSE IF CaughtByException(res) THEN "utp_returned"
    ELSE "raised"

\* Where update_trust_policy goes after update_assume_role_policy: on to the
\* propagation wait (lines 109-112), or into the except clause (lines 114-115)
\* and back to auto_assume.
AfterWrite(res) ==
    IF res = "ok" THEN "sleep"
    ELSE IF CaughtByException(res) THEN "utp_returned"
    ELSE "raised"

\* update_assume_role_policy (lines 105-109): a full replace of the role's
\* document by the one sent.
update_trust_policy_write(p) ==
    /\ pc[p] = "write"
    /\ \E o \in Outcomes :
        LET res == IF o = "ok" /\ ~ServerAccepts(PolicyDocument(p)) THEN "ClientError" ELSE o
        IN /\ trace' = [trace EXCEPT ![p] = Append(@, Event("update_assume_role_policy", res = "ok"))]
           /\ policy' = IF res = "ok" THEN PolicyDocument(p) ELSE policy
           /\ utp' = [utp EXCEPT ![p] = IF res = "ok" THEN "updated" ELSE "error"]
           /\ pc' = [pc EXCEPT ![p] = AfterWrite(res)]
           /\ exc' = [exc EXCEPT ![p] = IF res # "ok" /\ ~CaughtByException(res) THEN res ELSE "none"]
    /\ UNCHANGED <<current_role_arn, fetched, trust_policy, role_arn, credentials, prev>>

\* time.sleep(10) (lines 110-112), after which update_trust_policy returns.
update_trust_policy_sleep(p) ==
    /\ pc[p] = "sleep"
    /\ trace' = [trace EXCEPT ![p] = Append(@, Event("sleep", TRUE))]
    /\ pc' = [pc EXCEPT ![p] = "utp_returned"]
    /\ UNCHANGED <<policy, current_role_arn, fetched, trust_policy, utp, role_arn, credentials, exc, prev>>

\* construct_role_arn (lines 48-57) with get_current_account_id (lines 33-45),
\* evaluated at line 133 once update_trust_policy has returned: a second
\* get_caller_identity; on any exception the account id is None.
construct_role_arn(p) ==
    /\ pc[p] = "utp_returned"
    /\ \E o \in Outcomes, id \in Identities :
        LET account_id == IF o = "ok" THEN StrAccount(id.Account) ELSE NoneAccount
        IN /\ trace' = [trace EXCEPT ![p] = Append(@, Event("get_caller_identity", o = "ok"))]
           /\ role_arn' = [role_arn EXCEPT ![p] = construct_arn(account_id, RoleName)]
           /\ pc' = [pc EXCEPT ![p] = IF o = "ok" \/ CaughtByException(o) THEN "assume" ELSE "raised"]
           /\ exc' = [exc EXCEPT ![p] = IF o = "ok" \/ CaughtByException(o) THEN "none" ELSE o]
    /\ UNCHANGED <<policy, current_role_arn, fetched, trust_policy, utp, credentials, prev>>

\* assume_role (lines 118-128) and the return of auto_assume (line 134).
assume_role(p) ==
    /\ pc[p] = "assume"
    /\ \E o \in Outcomes :
        /\ trace' = [trace EXCEPT ![p] = Append(@, Event("assume_role", o = "ok"))]
        /\ credentials' = [credentials EXCEPT ![p] = IF o = "ok" THEN Credentials(role_arn[p]) ELSE NoneCredentials]
        /\ pc' = [pc EXCEPT ![p] = IF o = "ok" \/ CaughtByClientError(o) THEN "done" ELSE "raised"]
        /\ exc' = [exc EXCEPT ![p] = IF o = "ok" \/ CaughtByClientError(o) THEN "none" ELSE o]
    /\ UNCHANGED <<policy, current_role_arn, fetched, trust_policy, utp, role_arn, prev>>

\* Sequential use: one call of auto_assume after another.
Next ==
    \E p \in Procs :
        \/ auto_assume(p)
        \/ update_trust_policy_fetch(p)
        \/ update_trust_policy_write(p)
        \/ update_trust_policy_sleep(p)
        \/ construct_role_arn(p)
        \/ assume_role(p)

Spec == Init /\ [][Next]_vars

\* Concurrent use: each caller calls update_trust_policy once; the calls
\* interleave at their remote calls.
NextConc ==
    \E p \in Procs :
        \/ update_trust_policy(p)
        \/ update_trust_policy_fetch(p)
        \/ update_trust_policy_write(p)
        \/ update_trust_policy_sleep(p)

SpecConc == Init /\ [][NextConc]_vars

\* ------------------------------------------------------------------ claims
AllOk(tr) == \A i \in 1..Len(tr) : tr[i].ok

Called(tr, call) == \E i \in 1..Len(tr) : tr[i].call = call

UtpReturned == {"utp_returned", "assume", "done", "raised"}

\* C1: when every remote call succeeds and the fetched policy has a Statement
\* list in which no Allow statement names the caller ARN, auto_assume ends
\* with the policy being the fetched one plus the one new Allow statement and
\* returns the credentials of assume_role("TestRoleSession") on the role ARN.
C1_GrantThenAssume ==
    \A p \in Procs : \A a \in Arns :
        ( /\ pc[p] = "done"
          /\ AllOk(trace[p])
          /\ current_role_arn[p] = PyStr(a)
          /\ fetched[p].hasStatement
          /\ Grants(fetched[p], a) = 0 )
        => /\ policy = AppendStatement(fetched[p], new_statement(PyStr(a)))
           /\ \E acct \in Accounts :
                credentials[p] = [isNone |-> FALSE,
                                  RoleArn |-> <<"arn:aws:iam::", acct, ":role/", RoleName>>,
                                  RoleSessionName |-> "TestRoleSession"]

\* C2: two update_trust_policy calls in sequence for the same principal ARN,
\* all remote calls succeeding, starting from a policy with a Statement list
\* that does not name the ARN: the policy then holds exactly one Allow
\* statement for the ARN and the second call issued no write.
C2_TwiceLeavesOneGrant ==
    \A p \in Procs : \A a \in Arns :
        ( /\ pc[p] \in UtpReturned
          /\ UtpOk(trace[p])
          /\ current_role_arn[p] = PyStr(a)
          /\ prev.ok /\ prev.fresh /\ prev.arn = PyStr(a) )
        => /\ Grants(policy, a) = 1
           /\ ~Called(trace[p], "update_assume_role_policy")

\* C3: when the first get_caller_identity fails, the call never issues
\* update_assume_role_policy and, once over, has returned None.
C3_IdentityFailureHalts ==
    \A p \in Procs :
        ( trace[p] # <<>> /\ trace[p][1] = Event("get_caller_identity", FALSE) )
        => /\ ~Called(trace[p], "update_assume_role_policy")
           /\ pc[p] \in Finished => (pc[p] = "done" /\ credentials[p].isNone)

\* C4: no failure of a remote call escapes auto_assume as an exception, and
\* auto_assume returns None whenever assume-role did not succeed.
C4_NoExceptionEscapes ==
    \A p \in Procs :
        /\ pc[p] # "raised"
        /\ (pc[p] = "done" /\ ~HasEvent(trace[p], "assume_role", TRUE)) => credentials[p].isNone

\* C5: once the policy is fetched, an Allow statement naming the granting ARN
\* in either form (the string itself, or a list holding it) makes
\* update_trust_policy return as already granted without a write; and it
\* returns as already granted only if some Allow statement contains the ARN.
C5_ScanDetectsBothForms ==
    \A p \in Procs :
        HasEvent(trace[p], "get_role", TRUE) =>
            /\ \A a \in Arns :
                (current_role_arn[p] = PyStr(a) /\ Grants(fetched[p], a) >= 1)
                => /\ utp[p] = "already"
                   /\ trust_policy[p] = fetched[p]
                   /\ ~Called(trace[p], "update_assume_role_policy")
            /\ utp[p] = "already" =>
                \E i \in 1..Len(fetched[p].Statement) :
                    /\ fetched[p].Statement[i].Effect = "Allow"
                    /\ PyIn(current_role_arn[p], fetched[p].Statement[i].AWS) = "true"

\* A call that returned as already granted on a list-form principal holding
\* the ARN beside another one.
C5_Witness ==
    \E p \in Procs : \E a \in Arns :
        /\ utp[p] = "already"
        /\ current_role_arn[p] = PyStr(a)
        /\ \E i \in 1..Len(fetched[p].Statement) :
            /\ Names(fetched[p].Statement[i], a)
            /\ fetched[p].Statement[i].AWS.form = "list"
            /\ Len(fetched[p].Statement[i].AWS.list) = 2

\* C6: a fetched document without a Statement list makes update_trust_policy
\* return normally with an error, with no write and the policy unchanged; an
\* exception leaving auto_assume afterwards is assume_role's own.
C6_MissingStatementGraceful ==
    \A p \in Procs :
        (HasEvent(trace[p], "get_role", TRUE) /\ ~fetched[p].hasStatement)
        => /\ pc[p] \in UtpReturned
           /\ utp[p] = "error"
           /\ ~Called(trace[p], "update_assume_role_policy")
           /\ policy = fetched[p]
           /\ pc[p] = "raised" => HasEvent(trace[p], "assume_role", FALSE)

C6_Witness ==
    \E p \in Procs :
        /\ HasEvent(trace[p], "get_role", TRUE)
        /\ ~fetched[p].hasStatement
        /\ current_role_arn[p].form = "str"
        /\ pc[p] = "done"

\* C7: when get_role or update_assume_role_policy raises, update_trust_policy
\* returns normally, a failed fetch leads to no write, and auto_assume goes on
\* to assume-role: when it returns it returns that call's result, and when it
\* raises the exception is that call's.
C7_UpdaterErrorsSwallowed ==
    \A p \in Procs :
        (HasEvent(trace[p], "get_role", FALSE) \/ HasEvent(trace[p], "update_assume_role_policy", FALSE))
        => /\ pc[p] \in UtpReturned
           /\ utp[p] = "error"
           /\ HasEvent(trace[p], "get_role", FALSE) => ~Called(trace[p], "update_assume_role_policy")
           /\ pc[p] = "done" =>
                /\ Called(trace[p], "assume_role")
                /\ credentials[p] = IF HasEvent(trace[p], "assume_role", TRUE) THEN Credentials(role_arn[p]) ELSE NoneCredentials
           /\ pc[p] = "raised" => HasEvent(trace[p], "assume_role", FALSE)

\* A call whose get_role failed and which returned credentials all the same.
C7_Witness ==
    \E p \in Procs :
        /\ HasEvent(trace[p], "get_role", FALSE)
        /\ pc[p] = "done"
        /\ ~credentials[p].isNone

\* C8: within one call the steps come in the order fetch, write, wait,
\* assume-role; the write follows a successful fetch that found no grant, the
\* wait follows a successful write and nothing else, and assume-role is not
\* issued after a successful write until the wait is over.
StepRank(call) ==
    CASE call = "get_role" -> 1
      [] call = "update_assume_role_policy" -> 2
      [] call = "sleep" -> 3
      [] call = "assume_role" -> 4
      [] OTHER -> 0

C8_StepsOrdered ==
    \A p \in Procs :
        LET tr == trace[p] IN
        /\ \A i \in 1..Len(tr) : \A j \in 1..Len(tr) :
            (i < j /\ StepRank(tr[i].call) > 0 /\ StepRank(tr[j].call) > 0)
            => StepRank(tr[i].call) < StepRank(tr[j].call)
        /\ \A i \in 1..Len(tr) :
            /\ tr[i].call = "update_assume_role_policy" => (i > 1 /\ tr[i - 1] = Event("get_role", TRUE))
            /\ tr[i].call = "sleep" => (i > 1 /\ tr[i - 1] = Event("update_assume_role_policy", TRUE))
            /\ (tr[i] = Event("update_assume_role_policy", TRUE) /\ Called(tr, "assume_role"))
               => (i < Len(tr) /\ tr[i + 1].call = "sleep")
        /\ pc[p] = "sleep" <=> (tr # <<>> /\ tr[Len(tr)] = Event("update_assume_role_policy", TRUE))
        /\ utp[p] = "already" => (~Called(tr, "update_assume_role_policy") /\ ~Called(tr, "sleep"))

C8_Witness ==
    \E p \in Procs :
        /\ pc[p] = "done"
        /\ Called(trace[p], "sleep")
        /\ HasEvent(trace[p], "assume_role", TRUE)

\* C9: when two concurrent update_trust_policy calls for different principal
\* ARNs both fetched the same document (neither saw the other's write) and
\* both wrote successfully, the role's policy is the document of one of them:
\* the fetched statements plus one, without the other caller's statement.
BothWrote(p, q) ==
    /\ p # q
    /\ HasEvent(trace[p], "update_assume_role_policy", TRUE)
    /\ HasEvent(trace[q], "update_assume_role_policy", TRUE)
    /\ fetched[p] = fetched[q]
    /\ current_role_arn[p] # current_role_arn[q]

Holds(doc, stmt) == \E i \in 1..Len(doc.Statement) : doc.Statement[i] = stmt

C9_LostUpdate ==
    \A p \in Procs : \A q \in Procs :
        BothWrote(p, q)
        => /\ policy \in {trust_policy[p], trust_policy[q]}
           /\ Len(policy.Statement) = Len(fetched[p].Statement) + 1
           /\ ~(Holds(policy, new_statement(current_role_arn[p])) /\ Holds(policy, new_statement(current_role_arn[q])))

C9_Witness ==
    \E p \in Procs : \E q \in Procs :
        /\ BothWrote(p, q)
        /\ pc[p] = "utp_returned" /\ pc[q] = "utp_returned"
        /\ ~Holds(policy, new_statement(current_role_arn[p]))
        /\ Holds(policy, new_statement(current_role_arn[q]))

\* C10: every change of the role's policy is a write of the fetched document,
\* which is the role's current one, with exactly one statement appended at
\* the end; no step removes or changes a statement.
C10_GrowsByAppends ==
    [][ policy' # policy =>
          \E p \in Procs :
              /\ pc[p] = "write"
              /\ fetched[p] = policy
              /\ policy' = AppendStatement(policy, new_statement(current_role_arn[p]))
              /\ policy'.hasStatement
              /\ SubSeq(policy'.Statement, 1, Len(policy.Statement)) = policy.Statement
              /\ Len(policy'.Statement) = Len(policy.Statement) + 1 ]_vars

\* A call that wrote, kept the earlier statement in front, then failed to
\* assume the role: the statement stays.
C10_Witness ==
    \E p \in Procs :
        /\ pc[p] \in Finished
        /\ HasEvent(trace[p], "update_assume_role_policy", TRUE)
        /\ HasEvent(trace[p], "assume_role", FALSE)
        /\ Len(fetched[p].Statement) >= 1
        /\ policy = AppendStatement(fetched[p], new_statement(current_role_arn[p]))

====
